---- MODULE Spec2Model ----
(***************************************************************************)
(* DarwinFi evolution engine (src/agents/evolution.py) and its genome      *)
(* (src/agents/models/agent.py).                                           *)
(*                                                                         *)
(* The engine's public methods are the actions.  Every draw from the       *)
(* shared random generator is an existential choice.  Probabilities are    *)
(* percentages: random.random() lies in [0,1), so a branch guarded by      *)
(* random.random() < rate can be taken iff rate > 0 and can be skipped iff *)
(* rate < 100.  Fitness values are floats in the program; they are         *)
(* integers here because the fitness function used is a sum of integers.   *)
(* uuid4 identifiers are modelled by a counter: an identifier is fresh     *)
(* when it exceeds every identifier handed to an agent that is still       *)
(* referenced.                                                             *)
(***************************************************************************)
EXTENDS Integers, Sequences, FiniteSets, TLC

VARIABLES
    population_size,      \* EvolutionEngine.population_size
    tournament_size,      \* EvolutionEngine.tournament_size
    crossover_rate,       \* EvolutionEngine.crossover_rate   (percent)
    mutation_rate,        \* EvolutionEngine.mutation_rate    (percent)
    elitism_count,        \* EvolutionEngine.elitism_count
    fitness_function,     \* EvolutionEngine.fitness_function ("None" or "sum")
    population,           \* EvolutionEngine.population
    current_generation,   \* EvolutionEngine.current_generation
    generation_stats,     \* EvolutionHistory.generation_stats
    best_agent_history,   \* EvolutionHistory.best_agent_history
    uuid,                 \* the last identifier uuid.uuid4() handed out
    last_call,            \* what the caller of the last method observed
    genomes,              \* the agents a caller holds outside any engine
    genome_call           \* what the caller of the last Agent method observed

vars == <<population_size, tournament_size, crossover_rate, mutation_rate,
          elitism_count, fitness_function, population, current_generation,
          generation_stats, best_agent_history, uuid, last_call,
          genomes, genome_call>>

(***************************************************************************)
(* Bounds of the exploration.                                              *)
(***************************************************************************)
MaxN == 2          \* largest population_size constructed
MaxUuid == 8       \* identifiers handed out before the exploration stops
MaxEvolve == 2     \* largest argument of evolve
MaxHeld == 4       \* agents a caller holds outside the engine
MaxCalls == 2      \* Agent methods the caller invokes in a row

PopulationSizes == 1..MaxN
TournamentSizes == 1..(MaxN + 1)
ElitismCounts == 0..(MaxN + 1)
CrossoverRates == {0, 50, 100}
MutationRates == {0, 100}
FitnessFunctions == {"None", "sum"}

(***************************************************************************)
(* Values.                                                                 *)
(***************************************************************************)
BoolVal(b) == [type |-> "bool", val |-> IF b THEN 1 ELSE 0]
IntVal(n) == [type |-> "int", val |-> n]

None == [kind |-> "None", val |-> 0]
Float(v) == [kind |-> "float", val |-> v]
NoAttribute == [kind |-> "absent", val |-> 0]

Max2(a, b) == IF a >= b THEN a ELSE b
Abs(n) == IF n < 0 THEN -n ELSE n

DefaultMutationRate == 5

\* The metrics dictionary Agent.__init__ creates.
DefaultMetrics ==
    [total_return |-> 0, sharpe_ratio |-> 0, max_drawdown |-> 0,
     win_rate |-> 0, avg_profit_loss |-> 0, trades_executed |-> 0]

\* Agent.__init__: the constructor sets no attribute named fitness.
\* params_ref is the identity of the dictionary strategy_params refers to:
\* agents with the same params_ref share one dictionary, and a write
\* through one of them is seen through all.  The dictionary passed to the
\* constructor is taken to be a new one, named after the agent.
NewAgent(id, strategy_params, generation, parent_ids) ==
    [id |-> id,
     strategy_params |-> strategy_params,
     params_ref |-> id,
     generation |-> generation,
     parent_ids |-> parent_ids,
     metrics |-> DefaultMetrics,
     fitness |-> NoAttribute,
     fitness_score |-> 0,
     mutation_rate |-> DefaultMutationRate,
     is_elite |-> FALSE,
     active |-> TRUE]

\* The parameter sets the injected agent_factory draws from.
FactoryParams ==
    {[w |-> IntVal(1)], [w |-> IntVal(2)], [flag |-> BoolVal(TRUE)]}

\* agent_factory(): a generation-0 agent without parents on which the
\* factory has set fitness to None, as the engine's evaluation requires.
FactoryAgent(id, p) ==
    [NewAgent(id, p, 0, <<>>) EXCEPT !.fitness = None]

(***************************************************************************)
(* Genome operators (src/agents/models/agent.py).                          *)
(***************************************************************************)

\* A clone counted as a child: the generation raised, no parents recorded.
CloneAsChild(agent, new_id) ==
    [agent EXCEPT !.id = new_id, !.params_ref = new_id, !.generation = @ + 1]

\* copy.copy in place of copy.deepcopy: the copy refers to the dictionary
\* of the original.
CloneShallow(agent, new_id) ==
    [agent EXCEPT !.id = new_id]

\* Agent.clone: copy.deepcopy of every attribute, then a new identifier.
\* The copy of the strategy_params dictionary is a new dictionary.
Clone(agent, new_id) ==
    [agent EXCEPT !.id = new_id, !.params_ref = new_id]

\* The adjustment without its minimum of 1.
AdjustmentNoMinimum(v) == Abs(v) \div 10

\* The adjustment of an integer parameter in Agent.mutate:
\* max(1, int(abs(param_value) * 0.1)).
Adjustment(v) == Max2(1, Abs(v) \div 10)

\* The values one parameter can have after the loop body of Agent.mutate
\* ran for it with the given per-parameter rate.
MutatedValues(value, rate) ==
    (IF rate < 100 THEN {value} ELSE {})
    \cup
    (IF rate > 0
        THEN IF value.type = "bool"
                THEN {[value EXCEPT !.val = 1 - value.val]}
                ELSE {[value EXCEPT !.val = value.val + d] :
                          d \in (-Adjustment(value.val))..Adjustment(value.val)}
        ELSE {})

\* Agent.mutate(rate): the agents the receiver can be afterwards.  Only
\* strategy_params is written.
Mutate(agent, rate) ==
    LET sp == agent.strategy_params
        range == UNION {MutatedValues(sp[key], rate) : key \in DOMAIN sp}
    IN  {[agent EXCEPT !.strategy_params = p] :
            p \in {q \in [DOMAIN sp -> range] :
                      \A key \in DOMAIN sp : q[key] \in MutatedValues(sp[key], rate)}}

\* Agent.mutate() without an argument uses the agent's own mutation_rate.
MutateDefault(agent) == Mutate(agent, agent.mutation_rate)

\* The child built from the keys of the first parent only.
CrossoverFirstKeys(agent1, agent2, new_id) ==
    LET p1 == agent1.strategy_params
        p2 == agent2.strategy_params
        Choices(key) == IF key \in DOMAIN p2 THEN {p1[key], p2[key]} ELSE {p1[key]}
        range == UNION {Choices(key) : key \in DOMAIN p1}
    IN  {[NewAgent(new_id, new_params,
                   Max2(agent1.generation, agent2.generation) + 1,
                   <<agent1.id, agent2.id>>)
            EXCEPT !.mutation_rate = (agent1.mutation_rate + agent2.mutation_rate) \div 2] :
            new_params \in {q \in [DOMAIN p1 -> range] :
                               \A key \in DOMAIN p1 : q[key] \in Choices(key)}}

\* Agent.crossover(agent1, agent2), the classmethod called with both
\* parents: the children it can return.
Crossover(agent1, agent2, new_id) ==
    LET p1 == agent1.strategy_params
        p2 == agent2.strategy_params
        all_keys == (DOMAIN p1) \cup (DOMAIN p2)
        Choices(key) ==
            IF key \in DOMAIN p1 /\ key \in DOMAIN p2 THEN {p1[key], p2[key]}
            ELSE IF key \in DOMAIN p1 THEN {p1[key]}
            ELSE {p2[key]}
        range == UNION {Choices(key) : key \in all_keys}
    IN  {[NewAgent(new_id, new_params,
                   Max2(agent1.generation, agent2.generation) + 1,
                   <<agent1.id, agent2.id>>)
            EXCEPT !.mutation_rate = (agent1.mutation_rate + agent2.mutation_rate) \div 2] :
            new_params \in {q \in [all_keys -> range] :
                               \A key \in all_keys : q[key] \in Choices(key)}}

\* The number of positional arguments Agent.crossover takes after cls, and
\* the number the engine's call parent1.crossover(parent2) supplies: the
\* receiver of a classmethod call is bound to cls, not to agent1.
CrossoverParameters == 2
EngineCrossoverArguments == 1

\* The engine's call parent1.crossover(parent2).
EngineCrossover(parent1, parent2, new_id) ==
    IF EngineCrossoverArguments = CrossoverParameters
        THEN [raised |-> "ok", children |-> Crossover(parent1, parent2, new_id)]
        ELSE [raised |-> "TypeError", children |-> {}]

\* Agent.to_dict: the dictionary holds references to parent_ids,
\* strategy_params and metrics, and has no entry for the attribute fitness.
ToDict(agent) ==
    [id |-> agent.id,
     generation |-> agent.generation,
     parent_ids |-> agent.parent_ids,
     strategy_params |-> agent.strategy_params,
     params_ref |-> agent.params_ref,
     metrics |-> agent.metrics,
     fitness_score |-> agent.fitness_score,
     mutation_rate |-> agent.mutation_rate,
     is_elite |-> agent.is_elite,
     active |-> agent.active]

\* Agent.from_dict: the constructor, then the attributes the dictionary
\* has; strategy_params is the dictionary object found in data.
FromDict(data) ==
    [NewAgent(data.id, data.strategy_params, data.generation, data.parent_ids)
        EXCEPT !.params_ref = data.params_ref,
               !.metrics = data.metrics,
               !.fitness_score = data.fitness_score,
               !.mutation_rate = data.mutation_rate,
               !.is_elite = data.is_elite,
               !.active = data.active]

\* The agents a caller holds after one of them wrote its strategy_params
\* dictionary in place: every holder of that dictionary sees the write.
WriteParams(held, ref, params) ==
    [j \in 1..Len(held) |->
        IF held[j].params_ref = ref
           THEN [held[j] EXCEPT !.strategy_params = params]
           ELSE held[j]]

(***************************************************************************)
(* The injected fitness function: the sum of the parameter values.         *)
(***************************************************************************)
RECURSIVE SumOver(_, _)
SumOver(sp, keys) ==
    IF keys = {} THEN 0
    ELSE LET key == CHOOSE x \in keys : TRUE
         IN  sp[key].val + SumOver(sp, keys \ {key})

FitnessOf(agent) == SumOver(agent.strategy_params, DOMAIN agent.strategy_params)

(***************************************************************************)
(* Engine operations (src/agents/evolution.py) as functions of the engine  *)
(* state st = [population, current_generation, generation_stats,           *)
(* best_agent_history, uuid].  An outcome is the state the call leaves     *)
(* together with what the caller and the fitness function saw of it:       *)
(* raised (the exception, or "ok"), fitness_calls (the identifiers of the  *)
(* agents passed to the fitness function, in order) and selected_unset     *)
(* (a selection keyed on fitness had an operand whose fitness is unset).   *)
(***************************************************************************)
Min2(a, b) == IF a <= b THEN a ELSE b
MinOf(S) == CHOOSE x \in S : \A y \in S : x <= y

Outcome(st, raised, calls, unset) ==
    [population |-> st.population,
     current_generation |-> st.current_generation,
     generation_stats |-> st.generation_stats,
     best_agent_history |-> st.best_agent_history,
     uuid |-> st.uuid,
     raised |-> raised,
     fitness_calls |-> calls,
     selected_unset |-> unset]

HasUnset(pop) == \E i \in 1..Len(pop) : pop[i].fitness.kind # "float"

\* The guard of evaluate_population left out.
FitnessFunctionNeverMissing(ff) == FALSE

\* `if not self.fitness_function`
FitnessFunctionMissing(ff) == ff = "None"

\* The memoization test left out: every agent is evaluated on every call.
NeedsEvaluationAlways(agent) == TRUE

\* The memoization test inverted: only scored agents are evaluated.
NeedsEvaluationInverted(agent) == agent.fitness # None

\* `if agent.fitness is None`
NeedsEvaluation(agent) == agent.fitness = None

RECURSIVE CallsUpTo(_, _)
CallsUpTo(pop, last) ==
    IF last = 0 THEN <<>>
    ELSE IF NeedsEvaluation(pop[last])
            THEN Append(CallsUpTo(pop, last - 1), pop[last].id)
            ELSE CallsUpTo(pop, last - 1)

\* EvolutionEngine.evaluate_population.  The loop stops at the first agent
\* that has no fitness attribute (AttributeError) or that would be passed
\* to a fitness function that is None (TypeError); the log line after the
\* loop takes np.max of the fitness list, which raises on an empty list.
EvaluatePopulation(st, ff) ==
    IF FitnessFunctionMissing(ff)
        THEN Outcome(st, "ValueError: Fitness function is not defined", <<>>, FALSE)
        ELSE
            LET pop == st.population
                absent == {i \in 1..Len(pop) : pop[i].fitness = NoAttribute}
                uncallable == IF ff = "None"
                                 THEN {i \in 1..Len(pop) : NeedsEvaluation(pop[i])}
                                 ELSE {}
                stop == absent \cup uncallable
                last == IF stop = {} THEN Len(pop) ELSE MinOf(stop) - 1
                evaluated == [i \in 1..Len(pop) |->
                                 IF i <= last /\ NeedsEvaluation(pop[i])
                                    THEN [pop[i] EXCEPT !.fitness = Float(FitnessOf(pop[i]))]
                                    ELSE pop[i]]
                after == [st EXCEPT !.population = evaluated]
                calls == CallsUpTo(pop, last)
            IN  IF stop # {}
                   THEN Outcome(after,
                                IF MinOf(stop) \in absent THEN "AttributeError" ELSE "TypeError",
                                calls, FALSE)
                ELSE IF Len(pop) = 0
                   THEN Outcome(after, "ValueError: zero-size array", calls, FALSE)
                ELSE Outcome(after, "ok", calls, FALSE)

\* The sort without reverse=True.
SortedPositionAscending(pop, i) ==
    Cardinality({j \in 1..Len(pop) : pop[j].fitness.val < pop[i].fitness.val})
    + Cardinality({j \in 1..i : pop[j].fitness.val = pop[i].fitness.val})

\* The position of pop[i] in sorted(pop, key=fitness, reverse=True): the
\* sort is stable, so agents of equal fitness keep their order.
SortedPosition(pop, i) ==
    Cardinality({j \in 1..Len(pop) : pop[j].fitness.val > pop[i].fitness.val})
    + Cardinality({j \in 1..i : pop[j].fitness.val = pop[i].fitness.val})

SortedPopulation(pop) ==
    [r \in 1..Len(pop) |-> pop[CHOOSE i \in 1..Len(pop) : SortedPosition(pop, i) = r]]

\* min in place of max.
FirstMin(pop) ==
    CHOOSE i \in 1..Len(pop) :
        /\ \A j \in 1..Len(pop) : pop[j].fitness.val >= pop[i].fitness.val
        /\ \A j \in 1..(i - 1) : pop[j].fitness.val > pop[i].fitness.val

\* max(agents, key=fitness): the first agent of maximal fitness.
FirstMax(pop) ==
    CHOOSE i \in 1..Len(pop) :
        /\ \A j \in 1..Len(pop) : pop[j].fitness.val <= pop[i].fitness.val
        /\ \A j \in 1..(i - 1) : pop[j].fitness.val < pop[i].fitness.val

\* The sample one agent short: random.sample(population, k - 1).
SamplesShort(pop, k) == {S \in SUBSET (1..Len(pop)) : Cardinality(S) = k - 1}

\* random.sample(population, tournament_size): tournament_size distinct
\* positions, in any order.
Samples(pop, k) == {S \in SUBSET (1..Len(pop)) : Cardinality(S) = k}

\* EvolutionEngine.tournament_selection: what the call can raise, the
\* positions of the agents it can return, and whether a sample it can draw
\* holds an agent with unset fitness.  The sample is in random order, so
\* max returns any of its agents of maximal fitness.
TournamentSelection(pop, k) ==
    IF k > Len(pop)
       THEN [raises |-> {"ValueError: Sample larger than population"},
             winners |-> {}, unset |-> FALSE]
       ELSE LET Unset(S) == \E i \in S : pop[i].fitness.kind # "float"
                comparable == {S \in Samples(pop, k) : k = 1 \/ ~Unset(S)}
            IN  [raises |-> IF comparable # Samples(pop, k) THEN {"TypeError"} ELSE {},
                 winners |-> {i \in 1..Len(pop) :
                                 \E S \in comparable :
                                    /\ i \in S
                                    /\ \A j \in S : pop[j].fitness.val <= pop[i].fitness.val},
                 unset |-> \E S \in Samples(pop, k) : Unset(S)]

\* The history replaced by its newest entry instead of appended to.
AddGenerationOverwrite(o, best_fitness, avg_fitness) ==
    LET pop == o.population
        stats == [generation |-> o.current_generation,
                  best_fitness |-> best_fitness,
                  average_fitness |-> avg_fitness,
                  population_size |-> Len(pop)]
    IN  [o EXCEPT !.generation_stats = <<stats>>,
                  !.best_agent_history = <<Clone(pop[FirstMax(pop)], o.uuid + 1)>>,
                  !.uuid = @ + 1]

\* The record numbered with the generation the population was bred from.
AddGenerationOldIndex(o, best_fitness, avg_fitness) ==
    LET pop == o.population
        stats == [generation |-> o.current_generation - 1,
                  best_fitness |-> best_fitness,
                  average_fitness |-> avg_fitness,
                  population_size |-> Len(pop)]
    IN  [o EXCEPT !.generation_stats = Append(@, stats),
                  !.best_agent_history = Append(@, Clone(pop[FirstMax(pop)], o.uuid + 1)),
                  !.uuid = @ + 1]

\* EvolutionHistory.add_generation, called by _record_generation_stats: the
\* record is appended first; max then compares the agents by fitness; the
\* best agent's clone is appended last.  timestamp, elapsed_time and the
\* standard deviation are not modelled; average_fitness is kept as the
\* pair <<sum, count>> it is the quotient of.
AddGeneration(o, best_fitness, avg_fitness) ==
    LET pop == o.population
        stats == [generation |-> o.current_generation,
                  best_fitness |-> best_fitness,
                  average_fitness |-> avg_fitness,
                  population_size |-> Len(pop)]
        recorded == [o EXCEPT !.generation_stats = Append(@, stats),
                              !.selected_unset = @ \/ HasUnset(pop)]
    IN  IF Len(pop) >= 2 /\ HasUnset(pop)
           THEN [recorded EXCEPT !.raised = "TypeError"]
           ELSE [recorded EXCEPT
                    !.best_agent_history = Append(@, Clone(pop[FirstMax(pop)], o.uuid + 1)),
                    !.uuid = @ + 1]

RECURSIVE SumFitness(_, _)
SumFitness(pop, S) ==
    IF S = {} THEN 0
    ELSE LET i == CHOOSE x \in S : TRUE
         IN  pop[i].fitness.val + SumFitness(pop, S \ {i})

\* The call of _record_generation_stats left out.
RecordGenerationStatsSkipped(o) == o

\* EvolutionEngine._record_generation_stats.
RecordGenerationStats(o) ==
    LET pop == o.population
        scored == {i \in 1..Len(pop) : pop[i].fitness # None}
    IN  IF \E i \in 1..Len(pop) : pop[i].fitness = NoAttribute
           THEN [o EXCEPT !.raised = "AttributeError"]
        ELSE IF scored = {}
           THEN o
        ELSE AddGeneration(o,
                 pop[CHOOSE i \in scored :
                        \A j \in scored : pop[j].fitness.val <= pop[i].fitness.val].fitness.val,
                 <<SumFitness(pop, scored), Cardinality(scored)>>)

\* The slice taken one position late: sorted_population[1:count + 1].
ElitesSkipBest(sorted, count) ==
    SubSeq(sorted, 2, Min2(count + 1, Len(sorted)))

\* elites = sorted_population[:self.elitism_count]
Elites(sorted, count) ==
    SubSeq(sorted, 1, Min2(count, Len(sorted)))

\* The loop stopping one offspring short.
FillCountShort(len, size) == IF len + 1 < size THEN size - len - 1 ELSE 0

\* The number of times the body of
\* `while len(new_population) < self.population_size` runs: every pass
\* appends one offspring.
FillCount(len, size) == IF len < size THEN size - len ELSE 0

\* `if len(new_population) > self.population_size`
Truncate(new_population, size) ==
    IF Len(new_population) > size THEN SubSeq(new_population, 1, size) ELSE new_population

\* One pass of the fill loop: what it can raise and the offspring it can
\* append (with identifier 0, assigned by the caller).
FillStep(pop, c) ==
    LET t == TournamentSelection(pop, c.tournament_size)
        cross == {EngineCrossover(pop[i1], pop[i2], 0) : i1 \in t.winners, i2 \in t.winners}
        clones == {Clone(pop[i], 0) :
                      i \in {IF first THEN i1 ELSE i2 :
                                i1 \in t.winners, i2 \in t.winners, first \in BOOLEAN}}
        bred == (IF c.crossover_rate > 0
                    THEN UNION {x.children : x \in cross} ELSE {})
                \cup
                (IF c.crossover_rate < 100 THEN clones ELSE {})
    IN  [raises |-> t.raises \cup
                    (IF c.crossover_rate > 0
                        THEN {x.raised : x \in cross} \ {"ok"} ELSE {}),
         offspring |-> (IF c.mutation_rate > 0
                           THEN UNION {MutateDefault(a) : a \in bred} ELSE {})
                       \cup
                       (IF c.mutation_rate < 100 THEN bred ELSE {}),
         unset |-> t.unset]

\* EvolutionEngine.create_next_generation: the outcomes the call can have.
CreateNextGeneration(st, c) ==
    LET ev == EvaluatePopulation(st, c.fitness_function)
        pop == ev.population
    IN  IF ev.raised # "ok" THEN {ev}
        ELSE IF Len(pop) >= 2 /\ HasUnset(pop)
           THEN {[ev EXCEPT !.raised = "TypeError", !.selected_unset = TRUE]}
        ELSE
            LET elites == Elites(SortedPopulation(pop), c.elitism_count)
                fill == FillCount(Len(elites), c.population_size)
                step == FillStep(pop, c)
                unset == HasUnset(pop) \/ (fill > 0 /\ step.unset)
                Bred(q) ==
                    Truncate([i \in 1..(Len(elites) + fill) |->
                                 IF i <= Len(elites)
                                    THEN Clone(elites[i], ev.uuid + i)
                                    ELSE [q[i - Len(elites)] EXCEPT
                                             !.id = ev.uuid + i,
                                             !.params_ref = IF @ = 0 THEN ev.uuid + i ELSE @]],
                             c.population_size)
                Replaced(q) ==
                    [ev EXCEPT !.population = Bred(q),
                               !.uuid = @ + Len(Bred(q)),
                               !.current_generation = @ + 1,
                               !.selected_unset = unset]
            IN  (IF fill > 0
                    THEN {[ev EXCEPT !.raised = r, !.selected_unset = unset] : r \in step.raises}
                    ELSE {})
                \cup
                {RecordGenerationStats(Replaced(q)) : q \in [1..fill -> step.offspring]}

\* EvolutionEngine.evolve(generations): the calls of create_next_generation
\* in sequence; the first one that raises ends the loop.
RECURSIVE Evolve(_, _, _)
Evolve(o, c, generations) ==
    IF generations = 0 THEN {o}
    ELSE UNION {IF r.raised # "ok"
                   THEN {[r EXCEPT !.fitness_calls = o.fitness_calls \o @,
                                   !.selected_unset = o.selected_unset \/ @]}
                   ELSE Evolve([r EXCEPT !.fitness_calls = o.fitness_calls \o @,
                                         !.selected_unset = o.selected_unset \/ @],
                               c, generations - 1) :
                r \in CreateNextGeneration(o, c)}

\* EvolutionEngine.get_best_agent: returned is the position in the
\* population of the agent returned (0 when the call raises).
GetBestAgent(st, ff) ==
    IF Len(st.population) = 0
       THEN [outcome |-> Outcome(st, "ValueError: Population is empty", <<>>, FALSE),
             returned |-> 0]
       ELSE LET ev == EvaluatePopulation(st, ff)
                pop == ev.population
            IN  IF ev.raised # "ok" THEN [outcome |-> ev, returned |-> 0]
                ELSE IF Len(pop) >= 2 /\ HasUnset(pop)
                   THEN [outcome |-> [ev EXCEPT !.raised = "TypeError", !.selected_unset = TRUE],
                         returned |-> 0]
                ELSE [outcome |-> [ev EXCEPT !.selected_unset = HasUnset(pop)],
                      returned |-> FirstMax(pop)]

(***************************************************************************)
(* The state machine: one action per public method of EvolutionEngine.     *)
(***************************************************************************)
EngineState ==
    [population |-> population,
     current_generation |-> current_generation,
     generation_stats |-> generation_stats,
     best_agent_history |-> best_agent_history,
     uuid |-> uuid]

Config ==
    [population_size |-> population_size,
     tournament_size |-> tournament_size,
     crossover_rate |-> crossover_rate,
     mutation_rate |-> mutation_rate,
     elitism_count |-> elitism_count,
     fitness_function |-> fitness_function]

Started == Outcome(EngineState, "ok", <<>>, FALSE)

Call(op, o, returned) ==
    [op |-> op,
     raised |-> o.raised,
     fitness_calls |-> o.fitness_calls,
     selected_unset |-> o.selected_unset,
     returned |-> returned]

\* The engine state after a call with outcome o.
Becomes(o) ==
    /\ population' = o.population
    /\ current_generation' = o.current_generation
    /\ generation_stats' = o.generation_stats
    /\ best_agent_history' = o.best_agent_history
    /\ uuid' = o.uuid
    /\ UNCHANGED <<population_size, tournament_size, crossover_rate,
                   mutation_rate, elitism_count, fitness_function,
                   genomes, genome_call>>

\* No Agent method has been called by the holder of genomes.
NoGenomeCall ==
    [op |-> "none", args |-> <<>>, rate |-> 0, returned |-> <<>>, count |-> 0]

\* EvolutionEngine.__init__: no argument is checked.
Init ==
    /\ population_size \in PopulationSizes
    /\ tournament_size \in TournamentSizes
    /\ crossover_rate \in CrossoverRates
    /\ mutation_rate \in MutationRates
    /\ elitism_count \in ElitismCounts
    /\ fitness_function \in FitnessFunctions
    /\ population = <<>>
    /\ current_generation = 0
    /\ generation_stats = <<>>
    /\ best_agent_history = <<>>
    /\ uuid = 0
    /\ last_call = Call("__init__", Started, 0)
    /\ genomes = <<>>
    /\ genome_call = NoGenomeCall

initialize_population ==
    \E params \in [1..population_size -> FactoryParams] :
        /\ Becomes([Started EXCEPT
               !.population = [i \in 1..population_size |-> FactoryAgent(i, params[i])],
               !.current_generation = 0,
               !.generation_stats = <<>>,
               !.best_agent_history = <<>>,
               !.uuid = population_size])
        /\ last_call' = Call("initialize_population", Started, 0)

evaluate_population ==
    LET o == EvaluatePopulation(EngineState, fitness_function)
    IN  /\ Becomes(o)
        /\ last_call' = Call("evaluate_population", o, 0)

\* A generation that completes takes population_size + 1 identifiers.
CanCreate(generations) ==
    uuid + generations * (population_size + 1) <= MaxUuid

create_next_generation ==
    /\ CanCreate(1)
    /\ \E o \in CreateNextGeneration(EngineState, Config) :
          /\ Becomes(o)
          /\ last_call' = Call("create_next_generation", o, 0)

evolve ==
    \E generations \in {g \in 0..MaxEvolve : CanCreate(g)} :
       \E o \in Evolve(Started, Config, generations) :
          /\ Becomes(o)
          /\ last_call' = Call("evolve", o, generations)

get_best_agent ==
    LET r == GetBestAgent(EngineState, fitness_function)
    IN  /\ Becomes(r.outcome)
        /\ last_call' = Call("get_best_agent", r.outcome, r.returned)

\* EvolutionEngine.tournament_selection called by the user of the engine:
\* returned is the position in the population of the agent returned.
tournament_selection ==
    LET t == TournamentSelection(population, tournament_size)
    IN  /\ Becomes(Started)
        /\ \/ \E r \in t.raises :
                 last_call' = Call("tournament_selection",
                                   Outcome(EngineState, r, <<>>, t.unset), 0)
           \/ \E i \in t.winners :
                 last_call' = Call("tournament_selection",
                                   Outcome(EngineState, "ok", <<>>, t.unset), i)

Next ==
    \/ initialize_population
    \/ evaluate_population
    \/ create_next_generation
    \/ evolve
    \/ get_best_agent
    \/ tournament_selection

Spec == Init /\ [][Next]_vars

(***************************************************************************)
(* The genome on its own: a caller holds agents and calls the methods of   *)
(* Agent on them.  The engine is not used and stays as constructed.        *)
(***************************************************************************)
GenomeParams ==
    {[w |-> IntVal(16)],
     [w |-> IntVal(-25), flag |-> BoolVal(TRUE)],
     [flag |-> BoolVal(FALSE), n |-> IntVal(0)]}

\* The rates the caller passes to mutate.
GenomeRates == {0, 100}

\* An agent from the factory, or one an engine has evaluated since.
GenomeInputs(id) ==
    {FactoryAgent(id, p) : p \in GenomeParams}
    \cup
    {[FactoryAgent(id, p) EXCEPT !.fitness = Float(FitnessOf(FactoryAgent(id, p)))] :
        p \in {[w |-> IntVal(16)]}}

GenomeCall(op, args, rate, returned) ==
    [op |-> op, args |-> args, rate |-> rate, returned |-> returned,
     count |-> genome_call.count + 1]

EngineUnused ==
    UNCHANGED <<population_size, tournament_size, crossover_rate, mutation_rate,
                elitism_count, fitness_function, population, current_generation,
                generation_stats, best_agent_history, last_call>>

InitGenomes ==
    /\ population_size = 1
    /\ tournament_size = 1
    /\ crossover_rate = 0
    /\ mutation_rate = 0
    /\ elitism_count = 0
    /\ fitness_function = "sum"
    /\ population = <<>>
    /\ current_generation = 0
    /\ generation_stats = <<>>
    /\ best_agent_history = <<>>
    /\ uuid = 2
    /\ last_call = Call("__init__", Started, 0)
    /\ \E a \in GenomeInputs(1), b \in GenomeInputs(2) : genomes = <<a, b>>
    /\ genome_call = NoGenomeCall

\* genomes[i].clone()
clone ==
    /\ genome_call.count < MaxCalls
    /\ Len(genomes) < MaxHeld
    /\ \E i \in 1..Len(genomes) :
          LET copy == Clone(genomes[i], uuid + 1)
          IN  /\ genomes' = Append(genomes, copy)
              /\ genome_call' = GenomeCall("clone", <<i>>, 0, <<copy>>)
    /\ uuid' = uuid + 1
    /\ EngineUnused

\* genomes[i].mutate(rate)
mutate ==
    /\ genome_call.count < MaxCalls
    /\ \E i \in 1..Len(genomes), rate \in GenomeRates :
          \E after \in Mutate(genomes[i], rate) :
             /\ genomes' = WriteParams(genomes, genomes[i].params_ref,
                                       after.strategy_params)
             /\ genome_call' = GenomeCall("mutate", <<i>>, rate, <<>>)
    /\ UNCHANGED uuid
    /\ EngineUnused

\* Agent.crossover(genomes[i], genomes[j])
crossover ==
    /\ genome_call.count < MaxCalls
    /\ Len(genomes) < MaxHeld
    /\ \E i, j \in 1..Len(genomes) :
          \E child \in Crossover(genomes[i], genomes[j], uuid + 1) :
             /\ genomes' = Append(genomes, child)
             /\ genome_call' = GenomeCall("crossover", <<i, j>>, 0, <<child>>)
    /\ uuid' = uuid + 1
    /\ EngineUnused

\* Agent.from_dict(genomes[i].to_dict()); the caller keeps only the result
\* of the call.
round_trip ==
    /\ genome_call.count < MaxCalls
    /\ \E i \in 1..Len(genomes) :
          genome_call' = GenomeCall("round_trip", <<i>>, 0,
                                    <<FromDict(ToDict(genomes[i]))>>)
    /\ UNCHANGED <<genomes, uuid>>
    /\ EngineUnused

NextGenomes ==
    \/ clone
    \/ mutate
    \/ crossover
    \/ round_trip

GenomeSpec == InitGenomes /\ [][NextGenomes]_vars

(***************************************************************************)
(* Vocabulary of the properties.                                           *)
(***************************************************************************)
ConfigurationError == "ValueError: Fitness function is not defined"

\* The step is a call of create_next_generation, or of evolve, that
\* returned after creating n generations.
Created(n) ==
    /\ last_call'.op \in {"create_next_generation", "evolve"}
    /\ last_call'.raised = "ok"
    /\ current_generation' = current_generation + n

\* The fitness the agent has once the population is evaluated.
Scored(agent) ==
    IF agent.fitness.kind = "float" THEN agent.fitness.val ELSE FitnessOf(agent)

Ids(pop) == {pop[i].id : i \in 1..Len(pop)}

ValidConfiguration ==
    /\ 0 <= elitism_count /\ elitism_count <= population_size
    /\ 1 <= tournament_size /\ tournament_size <= population_size

Initialized == Len(population) = population_size

\* C1 -- Population size invariant: with 0 <= e <= N and 1 <= k <= N, once
\* the population is initialized to N genomes it holds exactly N genomes
\* after every call of create_next_generation (and of evolve), whatever the
\* random choices and whether or not the call returns normally.
C1_PopulationSize ==
    [][(/\ ValidConfiguration
        /\ Initialized
        /\ last_call'.op \in {"create_next_generation", "evolve"})
       => Len(population') = population_size]_vars

\* A generation was created by a call that ran the fill loop.
C1_Witness ==
    /\ ValidConfiguration
    /\ last_call.op = "create_next_generation"
    /\ last_call.raised = "ok"
    /\ current_generation >= 1
    /\ elitism_count < population_size
    /\ Len(population) = population_size

\* C2 -- Elitism fidelity: in every generation transition the first
\* min(e, N) members of the new population are clones of distinct members
\* of the old population, in descending order of fitness, none of the
\* other old members being fitter; each has the strategy_params and the
\* fitness of its original, unmutated, and an identifier no old member has.
C2_ElitismFidelity ==
    [][Created(1) =>
        LET old == population
            new == population'
            e == Min2(elitism_count, Len(old))
        IN  /\ Len(new) >= e
            /\ \E m \in [1..e -> 1..Len(old)] :
                  /\ \A i, j \in 1..e : i # j => m[i] # m[j]
                  /\ \A i \in 1..e :
                        /\ new[i].strategy_params = old[m[i]].strategy_params
                        /\ new[i].fitness = Float(Scored(old[m[i]]))
                        /\ new[i].id \notin Ids(old)
                  /\ \A i \in 1..(e - 1) : Scored(old[m[i]]) >= Scored(old[m[i + 1]])
                  /\ \A j \in 1..Len(old) :
                        (\A i \in 1..e : m[i] # j)
                           => \A i \in 1..e : Scored(old[j]) <= Scored(old[m[i]])]_vars

\* A generation with an elite and a bred member whose parameters differ
\* from the elite's.
C2_Witness ==
    /\ last_call.op = "create_next_generation"
    /\ last_call.raised = "ok"
    /\ elitism_count = 1
    /\ population_size = 2
    /\ Len(population) = 2
    /\ mutation_rate = 100
    /\ population[1].strategy_params # population[2].strategy_params
    /\ population[1].fitness.val > population[2].fitness.val

\* C3 -- Monotonic best: with e >= 1 and the deterministic fitness
\* function, every generation record a call appends has a best_fitness >=
\* that of the record before it, the first of them has a best_fitness >=
\* the best fitness of the evaluated population it was bred from, and the
\* fitness of the best agent ever does not decrease.
BestEverFitness(history) ==
    history[FirstMax(history)].fitness.val

C3_MonotonicBest ==
    [][(/\ elitism_count >= 1
        /\ last_call'.op \in {"create_next_generation", "evolve"}
        /\ Len(generation_stats') > Len(generation_stats))
       =>
        /\ \A i \in (Len(generation_stats) + 1)..Len(generation_stats') :
              i > 1 => generation_stats'[i].best_fitness
                          >= generation_stats'[i - 1].best_fitness
        /\ \A j \in 1..Len(population) :
              generation_stats'[Len(generation_stats) + 1].best_fitness
                 >= Scored(population[j])
        /\ Len(best_agent_history) > 0
              => BestEverFitness(best_agent_history')
                    >= BestEverFitness(best_agent_history)]_vars

\* Two generations recorded with an elite, bred from a population whose
\* members differ in fitness.
C3_Witness ==
    /\ elitism_count >= 1
    /\ Len(generation_stats) >= 2
    /\ population_size >= 2
    /\ tournament_size = 1
    /\ \E i, j \in 1..Len(population) :
          population[i].fitness.val # population[j].fitness.val

\* C4 -- Offspring production: a call of create_next_generation on an
\* initialized population with a fitness function and k <= N returns
\* normally whichever branch the fill loop takes, and when every pass
\* takes the crossover branch (pc = 1) every member after the elites is a
\* crossover child: two parent_ids, both of old members, and a generation
\* one above that of a parent.
C4_OffspringProduction ==
    [][(/\ last_call'.op = "create_next_generation"
        /\ fitness_function # "None"
        /\ Initialized
        /\ tournament_size <= population_size)
       =>
        /\ last_call'.raised = "ok"
        /\ crossover_rate = 100 =>
              \A i \in (Min2(elitism_count, population_size) + 1)..Len(population') :
                 /\ Len(population'[i].parent_ids) = 2
                 /\ \A p \in 1..2 : population'[i].parent_ids[p] \in Ids(population)
                 /\ \E j \in 1..Len(population) :
                       population'[i].generation = population[j].generation + 1]_vars

\* C5 -- Generation bookkeeping: initialize_population sets the counter to
\* 0 and empties the history; a call of create_next_generation that
\* returns adds exactly 1 to the counter and appends exactly one record;
\* in every state the two history lists are as long as the counter says,
\* and the i-th record has generation index i and population_size N.
C5_Bookkeeping ==
    /\ [](/\ Len(generation_stats) = current_generation
          /\ Len(best_agent_history) = current_generation
          /\ \A i \in 1..Len(generation_stats) :
                /\ generation_stats[i].generation = i
                /\ generation_stats[i].population_size = population_size)
    /\ [][/\ last_call'.op = "initialize_population"
             => /\ current_generation' = 0
                /\ generation_stats' = <<>>
                /\ best_agent_history' = <<>>
          /\ (last_call'.op = "create_next_generation" /\ last_call'.raised = "ok")
             => /\ current_generation' = current_generation + 1
                /\ Len(generation_stats') = Len(generation_stats) + 1
                /\ generation_stats'[Len(generation_stats')].generation
                      = current_generation'
          /\ (last_call'.op = "evolve" /\ last_call'.raised = "ok")
             => current_generation' = current_generation + last_call'.returned]_vars

\* Two generations on record, the second created by evolve.
C5_Witness ==
    /\ current_generation = 2
    /\ Len(generation_stats) = 2
    /\ last_call.op = "evolve"
    /\ last_call.raised = "ok"
    /\ last_call.returned = 1

\* C6 -- Memoized evaluation: a call of evaluate_population that returns
\* passed to the fitness function exactly the agents whose fitness was
\* unset, each once, left every agent whose fitness was set as it was,
\* changed nothing but fitness, and leaves no fitness unset; a call right
\* after one that returned calls the fitness function for no agent and
\* changes nothing.
C6_MemoizedEvaluation ==
    [][(last_call'.op = "evaluate_population" /\ last_call'.raised = "ok")
       =>
        LET old == population
            new == population'
            calls == last_call'.fitness_calls
            unset == {i \in 1..Len(old) : old[i].fitness = None}
        IN  /\ Len(new) = Len(old)
            /\ Len(calls) = Cardinality(unset)
            /\ \A i \in unset :
                  Cardinality({q \in 1..Len(calls) : calls[q] = old[i].id}) = 1
            /\ \A i \in 1..Len(old) :
                  /\ i \notin unset => new[i] = old[i]
                  /\ new[i].fitness.kind = "float"
                  /\ [new[i] EXCEPT !.fitness = None] = [old[i] EXCEPT !.fitness = None]
            /\ (last_call.op = "evaluate_population" /\ last_call.raised = "ok")
                  => calls = <<>> /\ new = old]_vars

\* An evaluation that scored both agents of a population.
C6_Witness ==
    /\ last_call.op = "evaluate_population"
    /\ last_call.raised = "ok"
    /\ Len(last_call.fitness_calls) = 2
    /\ Len(population) = 2

\* C7 -- Fitness-unset invariant: every member of a freshly created
\* generation that is not an elite (a clone or a crossover child, mutated
\* or not) has its fitness unset, so that the next evaluation scores it.
C7_OffspringUnscored ==
    (/\ last_call.op = "create_next_generation"
     /\ last_call.raised = "ok")
    => \A i \in (Min2(elitism_count, Len(population)) + 1)..Len(population) :
          population[i].fitness.kind # "float"

\* C8 -- No selection on unset fitness: no call of create_next_generation,
\* evolve or get_best_agent sorts, runs a tournament over, or takes the
\* maximum of agents of which one has unset fitness.
C8_NoSelectionOnUnset ==
    last_call.op \in {"create_next_generation", "evolve", "get_best_agent"}
       => ~last_call.selected_unset

\* A generation created with tournaments from a population that the call
\* itself had to evaluate.
C8_Witness ==
    /\ last_call.op = "create_next_generation"
    /\ last_call.raised = "ok"
    /\ last_call.fitness_calls # <<>>
    /\ elitism_count < population_size
    /\ population_size >= 2

\* C9 -- Missing fitness function: without a fitness function,
\* evaluate_population, create_next_generation and evolve(n >= 1) raise the
\* configuration error and leave the population (members and fitness),
\* the generation counter and the history as they were.
C9_MissingFitnessFunction ==
    [][(/\ fitness_function = "None"
        /\ \/ last_call'.op \in {"evaluate_population", "create_next_generation"}
           \/ last_call'.op = "evolve" /\ last_call'.returned >= 1)
       =>
        /\ last_call'.raised = ConfigurationError
        /\ UNCHANGED <<population, current_generation,
                       generation_stats, best_agent_history>>]_vars

\* evolve(2) refused on an initialized population.
C9_Witness ==
    /\ fitness_function = "None"
    /\ last_call.op = "evolve"
    /\ last_call.returned = 2
    /\ last_call.raised = ConfigurationError
    /\ Len(population) = 2

\* C10 -- Configuration validation: no engine exists whose tournament size
\* or elitism count exceeds its population size, and no call fails because
\* the tournament sample is larger than the population.
C10_ConfigurationValidated ==
    /\ tournament_size <= population_size
    /\ elitism_count <= population_size
    /\ last_call.raised # "ValueError: Sample larger than population"

\* C11 -- Empty population: on an empty population get_best_agent raises
\* "Population is empty" without calling the fitness function and
\* tournament_selection raises the sampling error, both leaving the engine
\* as it was; a call of get_best_agent that returns on a non-empty
\* population returns a member whose fitness no member exceeds.
C11_EmptyPopulation ==
    [][/\ (last_call'.op = "get_best_agent" /\ Len(population) = 0)
          => /\ last_call'.raised = "ValueError: Population is empty"
             /\ last_call'.fitness_calls = <<>>
             /\ UNCHANGED <<population, current_generation,
                            generation_stats, best_agent_history>>
       /\ (last_call'.op = "tournament_selection" /\ Len(population) = 0)
          => /\ last_call'.raised # "ok"
             /\ UNCHANGED <<population, current_generation,
                            generation_stats, best_agent_history>>
       /\ (last_call'.op = "get_best_agent" /\ last_call'.raised = "ok")
          => /\ last_call'.returned \in 1..Len(population')
             /\ \A j \in 1..Len(population') :
                   /\ population'[j].fitness.kind = "float"
                   /\ population'[j].fitness.val
                         <= population'[last_call'.returned].fitness.val]_vars

\* get_best_agent returned the second of two members, the fitter one.
C11_Witness ==
    /\ last_call.op = "get_best_agent"
    /\ last_call.raised = "ok"
    /\ last_call.returned = 2
    /\ Len(population) = 2
    /\ population[2].fitness.val > population[1].fitness.val

\* C12 -- Tournament selection: on an evaluated population of N members
\* with 1 <= k <= N, tournament_selection returns a member; at least k - 1
\* other members have a fitness <= its fitness; with k = N no member is
\* fitter; and the call leaves the population and every agent as they were.
C12_TournamentSelection ==
    [][(/\ last_call'.op = "tournament_selection"
        /\ ~HasUnset(population)
        /\ tournament_size <= Len(population))
       =>
        LET r == last_call'.returned
        IN  /\ last_call'.raised = "ok"
            /\ r \in 1..Len(population)
            /\ Cardinality({j \in 1..Len(population) :
                               j # r /\ population[j].fitness.val
                                           <= population[r].fitness.val})
                  >= tournament_size - 1
            /\ tournament_size = Len(population)
                  => \A j \in 1..Len(population) :
                        population[j].fitness.val <= population[r].fitness.val
            /\ UNCHANGED <<population, current_generation,
                           generation_stats, best_agent_history>>]_vars

\* A tournament of one returned the weaker of two evaluated members.
C12_Witness ==
    /\ last_call.op = "tournament_selection"
    /\ last_call.raised = "ok"
    /\ tournament_size = 1
    /\ Len(population) = 2
    /\ ~HasUnset(population)
    /\ last_call.returned = 1
    /\ population[1].fitness.val < population[2].fitness.val

\* C13 -- Crossover operator: the child of Agent.crossover(A, B) has the
\* union of the parents' keys; a key of one parent only has that parent's
\* value and a key of both has the value of A or of B; its generation is
\* max(A.generation, B.generation) + 1, its parent_ids are [A.id, B.id],
\* its metrics are the defaults and its identifier is neither parent's;
\* A, B and every other agent held are left as they were.
C13_CrossoverOperator ==
    [][genome_call'.op = "crossover" =>
        LET A == genomes[genome_call'.args[1]]
            B == genomes[genome_call'.args[2]]
            child == genome_call'.returned[1]
            ka == DOMAIN A.strategy_params
            kb == DOMAIN B.strategy_params
        IN  /\ DOMAIN child.strategy_params = ka \cup kb
            /\ \A key \in ka \ kb : child.strategy_params[key] = A.strategy_params[key]
            /\ \A key \in kb \ ka : child.strategy_params[key] = B.strategy_params[key]
            /\ \A key \in ka \cap kb :
                  child.strategy_params[key]
                     \in {A.strategy_params[key], B.strategy_params[key]}
            /\ child.generation = Max2(A.generation, B.generation) + 1
            /\ child.parent_ids = <<A.id, B.id>>
            /\ child.metrics = DefaultMetrics
            /\ child.id \notin {A.id, B.id}
            /\ \A k \in 1..Len(genomes) : genomes'[k] = genomes[k]]_vars

\* A child of a crossover child and an agent of generation 0, with a key
\* from each parent only.
C13_Witness ==
    /\ genome_call.op = "crossover"
    /\ genome_call.count = 2
    /\ genome_call.returned[1].generation = 2
    /\ DOMAIN genome_call.returned[1].strategy_params = {"w", "flag", "n"}

\* round(0.1 * n) for n >= 0, halves to the even neighbour.
RoundTenth(n) ==
    LET q == n \div 10
        r == n % 10
    IN  IF r < 5 THEN q
        ELSE IF r > 5 THEN q + 1
        ELSE IF q % 2 = 0 THEN q ELSE q + 1

\* A step of mutate on the agent at position i of the caller's agents
\* keeps keys and types, changes nothing at rate 0, and at rate 1 flips
\* the booleans and moves each integer v by at most D(v).
MutateStepWithin(D(_)) ==
    genome_call'.op = "mutate" =>
        LET i == genome_call'.args[1]
            old == genomes[i].strategy_params
            new == genomes'[i].strategy_params
        IN  /\ DOMAIN new = DOMAIN old
            /\ \A key \in DOMAIN old :
                  /\ new[key].type = old[key].type
                  /\ genome_call'.rate = 0 => new[key] = old[key]
                  /\ (genome_call'.rate = 100 /\ old[key].type = "bool")
                        => new[key].val = 1 - old[key].val
                  /\ (genome_call'.rate = 100 /\ old[key].type = "int")
                        => /\ new[key].val >= old[key].val - D(old[key].val)
                           /\ new[key].val <= old[key].val + D(old[key].val)

\* For every integer parameter v of an agent held, mutate(rate=1.0) can
\* produce every integer of [v - D(v), v + D(v)].
EveryMovePossible(D(_)) ==
    \A i \in 1..Len(genomes) :
       LET outcomes == Mutate(genomes[i], 100)
       IN  \A key \in DOMAIN genomes[i].strategy_params :
              LET v == genomes[i].strategy_params[key]
              IN  v.type = "int"
                     => (v.val - D(v.val))..(v.val + D(v.val))
                           \subseteq {m.strategy_params[key].val : m \in outcomes}

RoundedStep(v) == Max2(1, RoundTenth(Abs(v)))
TruncatedStep(v) == Max2(1, Abs(v) \div 10)

\* C14 (as claimed) -- Mutation semantics: mutate(rate=1.0) flips every
\* boolean and moves every integer v to a value of [v - d, v + d] with
\* d = max(1, round(0.1 * |v|)), each integer of that range being possible;
\* mutate(rate=0) changes nothing; keys and types stay.
C14_MutationRounded ==
    /\ [][MutateStepWithin(RoundedStep)]_vars
    /\ []EveryMovePossible(RoundedStep)

\* C14 (amended) -- the same with d = max(1, floor(0.1 * |v|)): the tenth
\* of |v| is truncated, not rounded.
C14_MutationTruncated ==
    /\ [][MutateStepWithin(TruncatedStep)]_vars
    /\ []EveryMovePossible(TruncatedStep)

\* mutate(1.0) moved the integer -25 by two and flipped the boolean.
C14_Witness ==
    /\ genome_call.op = "mutate"
    /\ genome_call.rate = 100
    /\ \E i \in 1..Len(genomes) :
          /\ genome_call.args = <<i>>
          /\ DOMAIN genomes[i].strategy_params = {"w", "flag"}
          /\ genomes[i].strategy_params.w.val = -27
          /\ genomes[i].strategy_params.flag.val = 0

\* C15 -- Snapshot round trip: from_dict(to_dict(g)) has the id,
\* generation, parent_ids, strategy_params, metrics, fitness,
\* mutation_rate, is_elite and active of g, also when the fitness of g was
\* set by an engine's evaluation.
C15_RoundTrip ==
    [][genome_call'.op = "round_trip" =>
        LET g == genomes[genome_call'.args[1]]
            back == genome_call'.returned[1]
        IN  /\ back.id = g.id
            /\ back.generation = g.generation
            /\ back.parent_ids = g.parent_ids
            /\ back.strategy_params = g.strategy_params
            /\ back.metrics = g.metrics
            /\ back.fitness = g.fitness
            /\ back.mutation_rate = g.mutation_rate
            /\ back.is_elite = g.is_elite
            /\ back.active = g.active]_vars

IsPrefix(s, t) == Len(s) <= Len(t) /\ SubSeq(t, 1, Len(s)) = s

\* C16 -- Append-only history: every call but initialize_population leaves
\* the generation records and the best-agent snapshots it found as a prefix
\* of the ones it leaves; the snapshot a call appends last has the
\* strategy_params and the fitness of a member of maximal fitness of the
\* new population, under an identifier no member has; and no snapshot
\* shares its strategy_params dictionary with a member of the population
\* or with another snapshot, so that no mutation reaches it.
C16_AppendOnlyHistory ==
    /\ [][/\ last_call'.op # "initialize_population"
             => /\ IsPrefix(generation_stats, generation_stats')
                /\ IsPrefix(best_agent_history, best_agent_history')
          /\ (/\ last_call'.op \in {"create_next_generation", "evolve"}
              /\ Len(best_agent_history') > Len(best_agent_history))
             => LET snapshot == best_agent_history'[Len(best_agent_history')]
                IN  /\ snapshot.id \notin Ids(population')
                    /\ \E i \in 1..Len(population') :
                          /\ snapshot.strategy_params = population'[i].strategy_params
                          /\ snapshot.fitness = population'[i].fitness
                          /\ \A j \in 1..Len(population') :
                                population'[j].fitness.val <= population'[i].fitness.val]_vars
    /\ [](\A i \in 1..Len(best_agent_history) :
             /\ \A j \in 1..Len(population) :
                   best_agent_history[i].params_ref # population[j].params_ref
             /\ \A j \in 1..Len(best_agent_history) :
                   i # j => best_agent_history[i].params_ref
                               # best_agent_history[j].params_ref)

\* A second snapshot was appended after a mutation moved the population
\* away from the parameters the first snapshot holds.
C16_Witness ==
    /\ last_call.op = "create_next_generation"
    /\ last_call.raised = "ok"
    /\ Len(best_agent_history) = 2
    /\ Len(generation_stats) = 2
    /\ best_agent_history[1].strategy_params # best_agent_history[2].strategy_params
    /\ \A j \in 1..Len(population) :
          population[j].strategy_params # best_agent_history[1].strategy_params

\* C17 -- Clone independence: clone() returns an agent with an identifier
\* no held agent has and with the generation, parent_ids, strategy_params,
\* metrics, fitness and mutation_rate of the original, and changes no held
\* agent; mutating an agent changes the strategy_params of no other agent
\* held, in particular not those of the agent it was cloned from.
C17_CloneIndependence ==
    [][/\ genome_call'.op = "clone" =>
            LET g == genomes[genome_call'.args[1]]
                copy == genome_call'.returned[1]
            IN  /\ copy.id \notin Ids(genomes)
                /\ copy.generation = g.generation
                /\ copy.parent_ids = g.parent_ids
                /\ copy.strategy_params = g.strategy_params
                /\ copy.metrics = g.metrics
                /\ copy.fitness = g.fitness
                /\ copy.mutation_rate = g.mutation_rate
                /\ \A k \in 1..Len(genomes) : genomes'[k] = genomes[k]
       /\ genome_call'.op = "mutate" =>
            \A k \in 1..Len(genomes) :
               k # genome_call'.args[1]
                  => genomes'[k].strategy_params = genomes[k].strategy_params]_vars

\* A clone was mutated away from the agent it was cloned from.
C17_Witness ==
    /\ genome_call.op = "mutate"
    /\ genome_call.rate = 100
    /\ genome_call.args = <<3>>
    /\ Len(genomes) = 3
    /\ genomes[3].generation = 0
    /\ genomes[3].fitness = genomes[1].fitness
    /\ DOMAIN genomes[3].strategy_params = DOMAIN genomes[1].strategy_params
    /\ genomes[3].strategy_params # genomes[1].strategy_params
    /\ DOMAIN genomes[2].strategy_params # DOMAIN genomes[1].strategy_params

\* C18 -- Transition atomicity: a call of create_next_generation either
\* returns, having replaced the population, added 1 to the counter and
\* appended one generation record and one snapshot, or raises, leaving the
\* members of the population (their identifiers, parameters and order),
\* the counter and the history as they were; in every state the counter
\* and the two history lists agree, so no replaced population is seen
\* without its record.
C18_TransitionAtomicity ==
    /\ [][last_call'.op = "create_next_generation" =>
            IF last_call'.raised = "ok"
               THEN /\ current_generation' = current_generation + 1
                    /\ Len(generation_stats') = Len(generation_stats) + 1
                    /\ Len(best_agent_history') = Len(best_agent_history) + 1
                    /\ Ids(population') \cap Ids(population) = {}
               ELSE /\ current_generation' = current_generation
                    /\ generation_stats' = generation_stats
                    /\ best_agent_history' = best_agent_history
                    /\ Len(population') = Len(population)
                    /\ \A i \in 1..Len(population) :
                          /\ population'[i].id = population[i].id
                          /\ population'[i].strategy_params = population[i].strategy_params]_vars
    /\ [](/\ Len(generation_stats) = current_generation
          /\ Len(best_agent_history) = current_generation
          /\ current_generation >= 1
                => generation_stats[current_generation].population_size = Len(population))

\* A call raised in its fill loop, after the population was evaluated and
\* the elite cloned, on a population an earlier call had replaced.
C18_Witness ==
    /\ last_call.op = "create_next_generation"
    /\ last_call.raised = "TypeError"
    /\ current_generation = 1
    /\ Len(generation_stats) = 1
    /\ elitism_count = 1
    /\ population_size = 2
    /\ Len(population) = 2

\* C19 -- No stale fitness: with the deterministic fitness function, after
\* a call of evaluate_population that returns, whatever calls of
\* create_next_generation came before it, every member of the population
\* has the fitness the function gives its present strategy_params, and
\* every snapshot, and the best_fitness of its generation record, is the
\* fitness the function gives the parameters the snapshot holds.
C19_NoStaleFitness ==
    (/\ fitness_function = "sum"
     /\ last_call.op = "evaluate_population"
     /\ last_call.raised = "ok")
    =>
     /\ \A i \in 1..Len(population) :
           population[i].fitness = Float(FitnessOf(population[i]))
     /\ \A i \in 1..Len(best_agent_history) :
           /\ best_agent_history[i].fitness = Float(FitnessOf(best_agent_history[i]))
           /\ i <= Len(generation_stats)
                 => generation_stats[i].best_fitness = FitnessOf(best_agent_history[i])

\* C20 -- Lineage invariant: the factory returning agents of generation 0
\* without parents, every agent of the population and every snapshot has a
\* generation no greater than the engine's counter, no parent_ids if and
\* only if its generation is 0, and exactly 2 parent_ids otherwise.
Lineage(agent) ==
    /\ agent.generation <= current_generation
    /\ Len(agent.parent_ids) = 0 <=> agent.generation = 0
    /\ agent.generation # 0 => Len(agent.parent_ids) = 2

C20_LineageInvariant ==
    /\ \A i \in 1..Len(population) : Lineage(population[i])
    /\ \A i \in 1..Len(best_agent_history) : Lineage(best_agent_history[i])

\* Two generations were bred, by passes of the fill loop that could take
\* the crossover branch, and their best agents are on record.
C20_Witness ==
    /\ current_generation = 2
    /\ Len(best_agent_history) = 2
    /\ crossover_rate = 50
    /\ elitism_count < population_size
    /\ Len(population) = population_size

====
